---------------------------- MODULE Spec2Model ----------------------------
(***************************************************************************)
(* A model of the SNN toolbox's Caffe model extractor                      *)
(* (snntoolbox/model_libs/caffe_input_lib.py, extract) and of its pyNN     *)
(* spiking-network builder                                                 *)
(* (snntoolbox/simulation/target_simulators/pyNN_target_sim.py, SNN).      *)
(* SpecExtract runs extract, Spec builds a network, SpecSave builds, saves  *)
(* and loads one, SpecRun goes through the samples of a simulation run.    *)
(*                                                                         *)
(* Python strings that the code formats or parses (layer labels) are       *)
(* sequences of one-character strings, so that formatting and parsing are  *)
(* computed character by character.  Type and class names that are only    *)
(* compared for equality are TLA+ strings; Chars gives their characters.   *)
(***************************************************************************)
EXTENDS Integers, Sequences, FiniteSets, TLC

VARIABLES
    \* ---- extract(model): the input and the loop's state
    net,              \* model_protobuf.layer / model.layers / model.blobs
    layer_num,        \* number of native layers the loop has gone through
    ex_layers,        \* extract's local list `layers`
    ex_labels,        \* extract's local list `labels`
    layer_idx_map,    \* extract's local list `layer_idx_map`
    ex_status,        \* "running", "returned" or "raised"
    ex_error,         \* the exception raised, "none" otherwise
    \* ---- SNN builder: configuration, object state, the last call
    config,           \* data_format, tools.simulate
    phase,            \* "Empty", "Ready" (input added), "Built" (layer awaits build_*),
                      \* "Compiled", "Loaded"; "Reset" and "Simulate" during a run
    layers,           \* self.layers: the populations
    flatten_shapes,   \* self.flatten_shapes
    change_padding,   \* self.change_padding
    connections,      \* self.connections
    script,           \* the blocks of lines written to self.output_script_path
    input_shape,      \* the shape given to add_input_layer, <<>> before
    added,            \* the layers of the successful add_layer calls, in order
    call,             \* the last call: operation, argument, exception, result
    io,               \* the last call's effect on files that existed before it
    \* ---- the working directory and the simulation run
    files,            \* the files in path_wd other than the script: name -> content
    sample_idx,       \* index of the next sample of the run
    resets            \* for each sample so far, whether reset() reset the simulator

exvars  == <<net, layer_num, ex_layers, ex_labels, layer_idx_map, ex_status, ex_error>>
runvars == <<files, sample_idx, resets>>
snnvars == <<config, phase, layers, flatten_shapes, change_padding, connections,
             script, input_shape, added, call, io, runvars>>
vars    == <<exvars, snnvars>>

---------------------------------------------------------------------------
(* Bounds of the model *)

\* longest tail of freely chosen native layers in a network description
MaxNative == 2
\* number of Data layers that may precede the tail (layer indices above 9)
MaxPad == 10
\* number of successful add_layer calls in one build
MaxLayers == 4
\* number of successful add_layer calls in a build that is saved
MaxSaved == 2
\* largest reset interval, and number of samples in a run
MaxInterval == 4
MaxSamples == 12

---------------------------------------------------------------------------
(* Strings as character sequences *)

DigitChars == <<"0", "1", "2", "3", "4", "5", "6", "7", "8", "9">>

\* str(n) for n >= 0
RECURSIVE StrInt(_)
StrInt(n) ==
    IF n < 10 THEN <<DigitChars[n + 1]>>
    ELSE StrInt(n \div 10) \o <<DigitChars[(n % 10) + 1]>>

IsDigit(c) == \E d \in 1..10 : DigitChars[d] = c

DigitVal(c) == (CHOOSE d \in 1..10 : DigitChars[d] = c) - 1

\* int(s) for a string of decimal digits; -1 stands for ValueError
RECURSIVE IntOfAcc(_, _)
IntOfAcc(s, acc) ==
    IF s = <<>> THEN acc
    ELSE IF ~IsDigit(Head(s)) THEN -1
    ELSE IntOfAcc(Tail(s), acc * 10 + DigitVal(Head(s)))

IntOf(s) == IF s = <<>> THEN -1 ELSE IntOfAcc(s, 0)

\* s.split(sep) for a one-character separator
RECURSIVE SplitAcc(_, _, _, _)
SplitAcc(s, sep, cur, done) ==
    IF s = <<>> THEN Append(done, cur)
    ELSE IF Head(s) = sep THEN SplitAcc(Tail(s), sep, <<>>, Append(done, cur))
    ELSE SplitAcc(Tail(s), sep, Append(cur, Head(s)), done)

Split(s, sep) == SplitAcc(s, sep, <<>>, <<>>)

\* sub in s  (Python's substring test)
IsSubstring(sub, s) ==
    \E i \in 0..(Len(s) - Len(sub)) :
        \A k \in 1..Len(sub) : s[i + k] = sub[k]

\* the characters of the names the model uses
Chars(name) ==
    CASE name = "InnerProduct"       -> <<"I","n","n","e","r","P","r","o","d","u","c","t">>
      [] name = "Convolution"        -> <<"C","o","n","v","o","l","u","t","i","o","n">>
      [] name = "Pooling"            -> <<"P","o","o","l","i","n","g">>
      [] name = "ReLU"               -> <<"R","e","L","U">>
      [] name = "Softmax"            -> <<"S","o","f","t","m","a","x">>
      [] name = "Data"               -> <<"D","a","t","a">>
      [] name = "BatchNormalization" -> <<"B","a","t","c","h","N","o","r","m","a","l","i","z","a","t","i","o","n">>
      [] name = "Dropout"            -> <<"D","r","o","p","o","u","t">>
      [] name = "Custom_Op"          -> <<"C","u","s","t","o","m","_","O","p">>
      [] name = "Dense"              -> <<"D","e","n","s","e">>
      [] name = "Convolution2D"      -> <<"C","o","n","v","o","l","u","t","i","o","n","2","D">>
      [] name = "Conv2D"             -> <<"C","o","n","v","2","D">>
      [] name = "MaxPooling2D"       -> <<"M","a","x","P","o","o","l","i","n","g","2","D">>
      [] name = "AveragePooling2D"   -> <<"A","v","e","r","a","g","e","P","o","o","l","i","n","g","2","D">>
      [] name = "Activation"         -> <<"A","c","t","i","v","a","t","i","o","n">>
      [] name = "Flatten"            -> <<"F","l","a","t","t","e","n">>
      [] name = "ZeroPadding"        -> <<"Z","e","r","o","P","a","d","d","i","n","g">>
      [] name = "ZeroPadding2D"      -> <<"Z","e","r","o","P","a","d","d","i","n","g","2","D">>
      [] name = "InputLayer"         -> <<"I","n","p","u","t","L","a","y","e","r">>

Last(s) == s[Len(s)]

RECURSIVE Prod(_)
Prod(s) == IF s = <<>> THEN 1 ELSE Head(s) * Prod(Tail(s))

RECURSIVE JoinX(_)
JoinX(nums) ==
    IF Len(nums) = 1 THEN StrInt(nums[1])
    ELSE StrInt(nums[1]) \o <<"x">> \o JoinX(Tail(nums))

---------------------------------------------------------------------------
(* get_shape_from_label *)

\* [int(i) for i in label.split('_')[1].split('x')]
get_shape_from_label(label) ==
    LET parts == Split(label, "_") IN
    IF Len(parts) < 2 THEN [raised |-> "IndexError", value |-> <<>>]
    ELSE LET pieces == Split(parts[2], "x")
             ints   == [k \in 1..Len(pieces) |-> IntOf(pieces[k])]
         IN  IF \E k \in 1..Len(ints) : ints[k] = -1
             THEN [raised |-> "ValueError", value |-> <<>>]
             ELSE [raised |-> "none", value |-> ints]


---------------------------------------------------------------------------
(* extract(model): the native network descriptions *)

\* layer.type values: the six names of the lookup, the normalization type the
\* code tests for, and two names the lookup does not know
NativeTypes ==
    {"InnerProduct", "Convolution", "Pooling", "ReLU", "Softmax", "Data",
     "BatchNormalization", "Dropout", "Custom_Op"}

\* list(model.blobs[layer_key].shape): batch first, then the other dimensions
NativeShapes == {<<1, 12>>, <<1, 2, 3, 10>>, <<1, 2, 1, 1, 2>>}

\* caffe.proto PoolMethod, in declaration order
PoolMethodValues == <<"MAX", "AVE", "STOCHASTIC">>

\* one native layer: its type, whether model.blobs holds its name (layers
\* computed in place have no blob of their own), the blob's shape, and
\* pooling_param.pool
NativeLayers ==
    [type : NativeTypes \ {"Pooling"}, has_blob : {TRUE}, shape : NativeShapes,
     pool : {"MAX"}]
    \cup [type : {"Pooling"}, has_blob : {TRUE}, shape : NativeShapes,
          pool : {"MAX", "AVE"}]
    \cup [type : {"ReLU", "Softmax", "Dropout"}, has_blob : {FALSE}, shape : {<<>>},
          pool : {"MAX"}]

DataLayer == [type |-> "Data", has_blob |-> TRUE, shape |-> <<1, 12>>, pool |-> "MAX"]

NativeTails == UNION {[1..n -> NativeLayers] : n \in 0..MaxNative}

NativeNets ==
    {[k \in 1..pad |-> DataLayer] \o tail : pad \in {0, MaxPad}, tail \in NativeTails}

\* snntoolbox.config.bn_layers: the layer types a normalization layer may follow
bn_layers == {"Dense", "Convolution2D"}

---------------------------------------------------------------------------
(* extract(model): one iteration of the loop over model_protobuf.layer *)

\* lines 118-127: the first if/elif chain; "unbound" when no branch assigns
first_chain(layer) ==
    IF layer.type = "InnerProduct" THEN "Dense"
    ELSE IF layer.type = "Convolution" THEN "Convolution2D"
    ELSE IF layer.type = "Pooling"
         THEN \* layer.pooling_param.PoolMethod.DESCRIPTOR.values[0].name
              IF PoolMethodValues[1] = "MAX" THEN "MaxPooling2D"
              ELSE "AveragePooling2D"
    ELSE "unbound"

\* a plausible slip: names the lookup does not know are skipped like Data
layer_type_skipping(layer) ==
    IF layer.type \in {"ReLU", "Softmax"} THEN "Activation"
    ELSE IF layer.type \in {"InnerProduct", "Convolution", "Pooling"} THEN layer.type
    ELSE "continue"

\* lines 118-133: layer_type after both chains.  The second chain starts with
\* `if`, not `elif`, so its else branch overwrites what the first chain chose.
\* "continue" stands for the loop's `continue`.
layer_type_of(layer) ==
    LET first == first_chain(layer) IN
    IF layer.type \in {"ReLU", "Softmax"} THEN "Activation"
    ELSE IF layer.type = "Data" THEN "continue"
    ELSE layer.type

\* a plausible slip: the batch dimension goes into the label
shape_string_with_batch(output_shape) ==
    IF Len(output_shape) = 2
    THEN [raised |-> "none", value |-> <<"_">> \o StrInt(output_shape[1])]
    ELSE IF Len(output_shape) < 4 THEN [raised |-> "IndexError", value |-> <<>>]
    ELSE [raised |-> "none",
          value |-> <<"_">> \o StrInt(output_shape[1]) \o <<"x">>
                    \o StrInt(output_shape[2]) \o <<"x">> \o StrInt(output_shape[3])]

\* lines 146-151: shape_string; output_shape[k] of the code is output_shape[k+1] here
shape_string(output_shape) ==
    IF Len(output_shape) = 2
    THEN [raised |-> "none", value |-> <<"_">> \o StrInt(output_shape[2])]
    ELSE IF Len(output_shape) < 4 THEN [raised |-> "IndexError", value |-> <<>>]
    ELSE [raised |-> "none",
          value |-> <<"_">> \o StrInt(output_shape[2]) \o <<"x">>
                    \o StrInt(output_shape[3]) \o <<"x">> \o StrInt(output_shape[4])]

\* line 152
num_str(n) == IF n > 9 THEN StrInt(n) ELSE <<"0">> \o StrInt(n)

Raise(e) == [kind |-> "raise", error |-> e, attributes |-> <<>>]

\* lines 114-212: the loop body for native layer `layer` at index n (from 0),
\* `next` the type of the following layer ("None" at the end) and `lays` the
\* layers emitted so far.  The result is a `continue`, an exception, or the
\* attributes appended to `layers`.
Iterate(n, layer, next, lays) ==
    LET layer_type == layer_type_of(layer) IN
    IF layer_type = "continue"
    THEN [kind |-> "continue", error |-> "none", attributes |-> <<>>]
    ELSE IF ~layer.has_blob /\ lays = <<>> THEN Raise("IndexError")   \* layers[-1]
    ELSE
    LET output_shape == IF layer.has_blob THEN layer.shape ELSE Last(lays).output_shape
        ss == shape_string(output_shape)
    IN
    IF ss.raised # "none" THEN Raise(ss.raised)
    ELSE IF next = "BatchNormalization" /\ layer_type \notin bn_layers
         THEN Raise("NotImplementedError")
    ELSE IF layer_type \in {"Dense", "Convolution2D"} /\ next = "BatchNormalization"
         THEN \* weights holds two blobs; weights[2] is read for absorb_bn
              Raise("IndexError")
    ELSE
    [kind |-> "append", error |-> "none",
     attributes |->
        [layer_num    |-> n,
         layer_type   |-> layer_type,
         output_shape |-> output_shape,
         label        |-> num_str(n) \o Chars(layer_type) \o ss.value,
         weights      |-> IF layer_type \in {"Dense", "Convolution2D"}
                          THEN "raw" ELSE "none",
         activation   |-> IF layer_type \in {"Dense", "Convolution2D"}
                             /\ next \in {"ReLU", "Softmax"}
                          THEN (IF next = "Softmax" THEN "softmax" ELSE "relu")
                          ELSE "none",
         params       |-> IF layer_type = "Convolution2D" THEN "convolution"
                          ELSE IF layer_type \in {"MaxPooling2D", "AveragePooling2D"}
                               THEN "pooling" ELSE "none",
         get_activ    |-> layer_type \in {"Activation", "AveragePooling2D",
                                          "MaxPooling2D"}]]

\* lines 156-158
next_layer_type(n) == IF n + 1 < Len(net) THEN net[n + 2].type ELSE "None"

---------------------------------------------------------------------------
(* extract(model) as a state machine: one step per native layer *)

NoLayer ==
    [cls |-> "none", name |-> <<>>, output_shape |-> <<>>, padding |-> <<>>,
     weights |-> <<>>, biases |-> <<>>]

NoCall == [op |-> "none", layer |-> NoLayer, raised |-> "none", connections |-> <<>>]

\* no file that existed was replaced, no overwrite confirmation was granted
NoIO == [replaced |-> {}, granted |-> {}]

\* a working directory without files
NoFiles == [n \in {} |-> <<>>]

SnnIdle ==
    /\ config = [data_format |-> "channels_last", simulate |-> FALSE,
                 overwrite |-> TRUE, reset_between_nth_sample |-> 1]
    /\ phase = "Empty"
    /\ layers = <<>>
    /\ flatten_shapes = <<>>
    /\ change_padding = FALSE
    /\ connections = <<>>
    /\ script = <<>>
    /\ input_shape = <<>>
    /\ added = <<>>
    /\ call = NoCall
    /\ io = NoIO
    /\ files = NoFiles
    /\ sample_idx = 0
    /\ resets = <<>>

InitExtract ==
    /\ net \in NativeNets
    /\ layer_num = 0
    /\ ex_layers = <<>>
    /\ ex_labels = <<>>
    /\ layer_idx_map = <<>>
    /\ ex_status = "running"
    /\ ex_error = "none"
    /\ SnnIdle

ExtractStep ==
    /\ ex_status = "running"
    /\ layer_num < Len(net)
    /\ LET r == Iterate(layer_num, net[layer_num + 1], next_layer_type(layer_num),
                        ex_layers)
       IN  CASE r.kind = "continue" ->
                  /\ layer_num' = layer_num + 1
                  /\ UNCHANGED <<ex_layers, ex_labels, layer_idx_map, ex_status, ex_error>>
             [] r.kind = "raise" ->
                  /\ ex_status' = "raised"
                  /\ ex_error' = r.error
                  /\ UNCHANGED <<layer_num, ex_layers, ex_labels, layer_idx_map>>
             [] r.kind = "append" ->
                  /\ ex_layers' = Append(ex_layers, r.attributes)
                  /\ ex_labels' = Append(ex_labels, r.attributes.label)
                  /\ layer_idx_map' = Append(layer_idx_map, layer_num)
                  /\ layer_num' = layer_num + 1
                  /\ UNCHANGED <<ex_status, ex_error>>
    /\ UNCHANGED <<net, snnvars>>

\* lines 214-215
ExtractReturn ==
    /\ ex_status = "running"
    /\ layer_num = Len(net)
    /\ ex_status' = "returned"
    /\ UNCHANGED <<net, layer_num, ex_layers, ex_labels, layer_idx_map, ex_error, snnvars>>

NextExtract == ExtractStep \/ ExtractReturn

SpecExtract == InitExtract /\ [][NextExtract]_vars

---------------------------------------------------------------------------
(* Claims about extract, under SpecExtract *)

\* the native type names of the lookup table
TableTypes == {"InnerProduct", "Convolution", "Pooling", "ReLU", "Softmax", "Data"}

\* the entries of `layers` emitted for the native layer at index n (from 0)
EntriesFor(n) == {k \in 1..Len(ex_layers) : ex_layers[k].layer_num = n}

\* the kind that the lookup table names for a native layer
TableKind(layer) ==
    CASE layer.type = "InnerProduct" -> "Dense"
      [] layer.type = "Convolution"  -> "Convolution2D"
      [] layer.type = "Pooling"      ->
            IF layer.pool = "MAX" THEN "MaxPooling2D" ELSE "AveragePooling2D"
      [] layer.type \in {"ReLU", "Softmax"} -> "Activation"

IsAffine(layer) == layer.type \in {"InnerProduct", "Convolution"}

\* C1 (as claimed): every native layer that extract has gone through is emitted
\* with the kind the lookup table gives for it (Pooling by the layer's own
\* pooling method), and a Data layer is not emitted.
C1_Claim ==
    \A n \in 0..(layer_num - 1) :
        LET layer == net[n + 1] IN
        /\ layer.type = "Data" => EntriesFor(n) = {}
        /\ layer.type \in TableTypes \ {"Data"} =>
              \E k \in EntriesFor(n) : ex_layers[k].layer_type = TableKind(layer)

\* C2 (as claimed): a native layer whose type is not in the lookup table is
\* never appended, and extract does not return a parsed network when the
\* description holds such a layer.
C2_Claim ==
    /\ \A k \in 1..Len(ex_layers) : net[ex_layers[k].layer_num + 1].type \in TableTypes
    /\ ex_status = "returned" => \A n \in 1..Len(net) : net[n].type \in TableTypes

\* C2 (amended): extract never raises an unsupported-layer-type error; every
\* native layer of a type outside the lookup table whose iteration completes
\* is appended with layer_type equal to its native type name.
C2_Amended ==
    /\ ex_error # "UnsupportedLayerType"
    /\ \A n \in 0..(layer_num - 1) :
          net[n + 1].type \notin TableTypes =>
             \E k \in EntriesFor(n) : ex_layers[k].layer_type = net[n + 1].type

\* C2 witness: extract returned a network holding a layer of an unknown type
C2_Witness ==
    /\ ex_status = "returned"
    /\ \E k \in 1..Len(ex_layers) : net[ex_layers[k].layer_num + 1].type = "Dropout"

\* C3 (as claimed): when an affine layer is immediately followed by ReLU or
\* Softmax and extract has gone through both, the affine layer's entry records
\* 'relu' or 'softmax' and the activation layer has no entry of its own.
C3_Claim ==
    \A n \in 0..(layer_num - 2) :
        (IsAffine(net[n + 1]) /\ net[n + 2].type \in {"ReLU", "Softmax"}) =>
            /\ \E k \in EntriesFor(n) :
                  ex_layers[k].activation =
                      (IF net[n + 2].type = "Softmax" THEN "softmax" ELSE "relu")
            /\ EntriesFor(n + 1) = {}

\* C4 (as claimed): when an affine layer (with an output shape of two or four
\* dimensions in model.blobs) is immediately followed by a normalization layer,
\* extract does not fail at the affine layer, and the weights it stores for
\* the affine layer are the folded ones.
C4_Claim ==
    \A n \in 0..(Len(net) - 2) :
        (/\ IsAffine(net[n + 1])
         /\ net[n + 1].has_blob /\ Len(net[n + 1].shape) \in {2, 4}
         /\ net[n + 2].type = "BatchNormalization") =>
            /\ ~(ex_status = "raised" /\ layer_num = n)
            /\ n < layer_num =>
                  \E k \in EntriesFor(n) : ex_layers[k].weights = "folded"

\* the label the claim describes: the index in at least two digits, the kind
\* name, '_', the non-batch dimensions joined by 'x'
ClaimedLabel(e) ==
    (IF e.layer_num < 10 THEN <<"0">> ELSE <<>>) \o StrInt(e.layer_num)
        \o Chars(e.layer_type) \o <<"_">> \o JoinX(Tail(e.output_shape))

LabelRoundTrips(e) ==
    /\ e.label = ClaimedLabel(e)
    /\ get_shape_from_label(e.label) = [raised |-> "none", value |-> Tail(e.output_shape)]

\* C5 (as claimed): every emitted layer's label is index, kind name, '_' and
\* the non-batch dimensions joined by 'x', and get_shape_from_label of the
\* label is the layer's non-batch output shape.
C5_Claim ==
    \A k \in 1..Len(ex_layers) :
        /\ ex_labels[k] = ex_layers[k].label
        /\ LabelRoundTrips(ex_layers[k])

\* C5 (amended): the same, for every emitted layer whose kind name holds no
\* '_' and whose output shape has at most three non-batch dimensions.
C5_Amended ==
    \A k \in 1..Len(ex_layers) :
        /\ ex_labels[k] = ex_layers[k].label
        /\ (/\ ~IsSubstring(<<"_">>, Chars(ex_layers[k].layer_type))
            /\ Len(ex_layers[k].output_shape) <= 4)
           => LabelRoundTrips(ex_layers[k])

\* C5 witness: a layer with index above 9 and three non-batch dimensions, one
\* of two digits, was emitted and its label gives the shape back
C5_Witness ==
    \E k \in 1..Len(ex_layers) :
        /\ ex_layers[k].layer_num > 9
        /\ ex_layers[k].output_shape = <<1, 2, 3, 10>>
        /\ get_shape_from_label(ex_labels[k]).value = <<2, 3, 10>>

---------------------------------------------------------------------------
(* SNN builder: configuration and the layers handed to it *)

\* self._dt, the simulation time step, as the fraction num/den (0.1 ms)
dt == [num |-> 1, den |-> 10]

\* config.getfloat('cell', 'delay')
delay == 1

\* the configurations: data layout and the tools.simulate switch
Configs ==
    [data_format : {"channels_last", "channels_first"}, simulate : BOOLEAN,
     overwrite : {TRUE}, reset_between_nth_sample : {1}]

\* input_shape: batch size first
InputShapes == {<<2, 2, 1, 2>>}

\* layer.padding of a ZeroPadding layer: a tuple whose elements are ints
\* (written <<n>>) or pairs of ints (written <<m, n>>)
Paddings == {<<>>, <<<<1, 1>>, <<1, 1>>>>, <<<<1, 1>>, <<1, 2>>>>, <<<<2>>, <<2>>>>}

ZeroBiases(n) == [k \in 1..n |-> 0]
RampBiases(n) == [k \in 1..n |-> k - 2]

\* a weight matrix with pairwise different entries; W[i][j] of the code is
\* WeightMatrix(rows, cols)[i + 1][j + 1]
WeightMatrix(rows, cols) ==
    [i \in 1..rows |-> [j \in 1..cols |-> 2 * ((i - 1) * cols + (j - 1)) - 3]]

\* a layer's name as the parser generates it: index, class name, shape
LayerName(idx, cls, output_shape) ==
    num_str(idx) \o Chars(cls) \o shape_string(output_shape).value

\* the layers that may be handed to add_layer as layer number idx when the
\* last population has src_size neurons
LayerInputs(idx, src_size) ==
    {[cls |-> "ZeroPadding2D", name |-> LayerName(idx, "ZeroPadding2D", <<2, 2, 2, 2>>),
      output_shape |-> <<2, 2, 2, 2>>, padding |-> p, weights |-> <<>>,
      biases |-> <<>>] : p \in Paddings}
    \cup
    {[cls |-> "Flatten", name |-> LayerName(idx, "Flatten", <<2, src_size>>),
      output_shape |-> <<2, src_size>>, padding |-> <<>>, weights |-> <<>>,
      biases |-> <<>>]}
    \cup
    {[cls |-> "Dense", name |-> LayerName(idx, "Dense", <<2, 2>>),
      output_shape |-> <<2, 2>>, padding |-> <<>>,
      weights |-> WeightMatrix(src_size, 2), biases |-> b] :
        b \in {ZeroBiases(2), RampBiases(2)}}
    \cup
    {[cls |-> "Conv2D", name |-> LayerName(idx, "Conv2D", <<2, 2, 1, 2>>),
      output_shape |-> <<2, 2, 1, 2>>, padding |-> c[1], weights |-> <<>>,
      biases |-> c[2]] :
        c \in {<<"valid", ZeroBiases(4)>>, <<"same", RampBiases(4)>>}}
    \cup
    {[cls |-> "AveragePooling2D",
      name |-> LayerName(idx, "AveragePooling2D", <<2, 1, 1, 2>>),
      output_shape |-> <<2, 1, 1, 2>>, padding |-> "valid", weights |-> <<>>,
      biases |-> <<>>]}

---------------------------------------------------------------------------
(* SNN builder: populations and biases *)

\* sim.Population(size, celltype, cellparams, label): i_offset starts at the
\* cell type's default 0.0 in every neuron (spike sources have none)
Population(size, celltype, label) ==
    [size |-> size, celltype |-> celltype, label |-> label,
     i_offset |-> IF celltype = "IF_curr_exp"
                  THEN [k \in 1..size |-> [num |-> 0, den |-> 1]] ELSE <<>>]

\* equality of two fractions
SameValue(a, b) == a.num * b.den = b.num * a.den

\* a plausible slip: the zero test is left out and the scale is dt/10
set_biases_unscaled(lays, biases) ==
    [lays EXCEPT ![Len(lays)].i_offset =
        [k \in 1..Len(biases) |-> [num |-> biases[k] * dt.num, den |-> dt.den * 10]]]

\* lines 423-435: set_biases, as a function from self.layers to self.layers
set_biases(lays, biases) ==
    IF ~(\E k \in 1..Len(biases) : biases[k] # 0) THEN lays
    ELSE [lays EXCEPT ![Len(lays)].i_offset =
            [k \in 1..Len(biases) |-> [num |-> biases[k] * dt.num, den |-> dt.den * 100]]]

---------------------------------------------------------------------------
(* SNN builder: add_input_layer, add_layer, compile *)

ExIdle ==
    /\ net = <<>>
    /\ layer_num = 0
    /\ ex_layers = <<>>
    /\ ex_labels = <<>>
    /\ layer_idx_map = <<>>
    /\ ex_status = "returned"
    /\ ex_error = "none"

\* lines 52-70: the state after SNN.__init__
Init ==
    /\ ExIdle
    /\ config \in Configs
    /\ phase = "Empty"
    /\ layers = <<>>
    /\ flatten_shapes = <<>>
    /\ change_padding = FALSE
    /\ connections = <<>>
    /\ script = <<>>
    /\ input_shape = <<>>
    /\ added = <<>>
    /\ call = NoCall
    /\ io = NoIO
    /\ files = NoFiles
    /\ sample_idx = 0
    /\ resets = <<>>

\* config.get('paths', 'filename_snn') and self.output_script_path (lines 68-70),
\* as names inside path_wd
filename_snn == <<"s", "n", "n">>
output_script_path == filename_snn \o <<".", "p", "y">>

\* '{}'.format(t) for a tuple of ints: "(2, 1, 2)", and "(12,)" for one element
RECURSIVE TupleItems(_)
TupleItems(t) ==
    IF Len(t) = 0 THEN <<>>
    ELSE IF Len(t) = 1 THEN StrInt(t[1])
    ELSE StrInt(t[1]) \o <<",", " ">> \o TupleItems(Tail(t))

TupleRepr(t) ==
    IF Len(t) = 1 THEN <<"(">> \o StrInt(t[1]) \o <<",", ")">>
    ELSE <<"(">> \o TupleItems(t) \o <<")">>

\* lines 84-149: the lines add_input_layer writes; the one that depends on the
\* call is the Population statement with the text of input_shape[1:]
header_lines(shape) ==
    [block |-> "header", label |-> Chars("InputLayer"), shape |-> TupleRepr(Tail(shape))]

\* a plausible slip: the whole output shape is written, batch dimension included
layer_lines_full_shape(layer) ==
    [block |-> "layer", label |-> layer.name, shape |-> TupleRepr(layer.output_shape)]

\* lines 179-187: the lines add_layer writes for a layer with a population
layer_lines(layer) ==
    [block |-> "layer", label |-> layer.name, shape |-> TupleRepr(Tail(layer.output_shape))]

\* the file at `name` is opened with mode 'w': what the call did to a file
\* that existed
Truncated(existed, name) ==
    [replaced |-> IF existed THEN {name} ELSE {}, granted |-> {}]

Called(op, layer, raised, conns) ==
    [op |-> op, layer |-> layer, raised |-> raised, connections |-> conns]

\* lines 76-151
add_input_layer(shape) ==
    /\ phase = "Empty"
    /\ layers' = Append(layers, Population(Prod(Tail(shape)), "SpikeSourceArray",
                                           Chars("InputLayer")))
    \* open(self.output_script_path, 'w'): the file starts anew
    /\ script' = <<header_lines(shape)>>
    /\ io' = Truncated(script # <<>>, output_script_path)
    /\ phase' = "Ready"
    /\ input_shape' = shape
    /\ call' = Called("add_input_layer", [NoLayer EXCEPT !.output_shape = shape],
                      "none", <<>>)
    /\ UNCHANGED <<config, flatten_shapes, change_padding, connections, added, exvars,
                   runvars>>

\* line 161: set(padding).issubset((1, (1, 1)))
padding_accepted(padding) ==
    \A k \in 1..Len(padding) : padding[k] \in {<<1>>, <<1, 1>>}

NeedsBuild(cls) == cls \in {"Dense", "Conv2D", "MaxPooling2D", "AveragePooling2D"}

\* a plausible slip: the Flatten test never matches, so a Flatten layer falls
\* through to the code that creates a population
dispatch_without_flatten(layer) ==
    IF IsSubstring(Chars("ZeroPadding"), Chars(layer.cls)) THEN "ZeroPadding"
    ELSE "other"

\* lines 158 and 168: the tests on layer.__class__.__name__
dispatch(layer) ==
    IF IsSubstring(Chars("ZeroPadding"), Chars(layer.cls)) THEN "ZeroPadding"
    ELSE IF IsSubstring(Chars("Flatten"), Chars(layer.cls)) THEN "Flatten"
    ELSE "other"

\* lines 153-189
add_layer(layer) ==
    /\ phase = "Ready"
    /\ Len(added) < MaxLayers
    /\ LET kind == dispatch(layer)
           flat == get_shape_from_label(Last(layers).label)
           raised ==
               CASE kind = "ZeroPadding" ->
                       IF padding_accepted(layer.padding) THEN "none"
                       ELSE "NotImplementedError"
                 [] kind = "Flatten" -> flat.raised
                 [] OTHER -> "none"
       IN  /\ call' = Called("add_layer", layer, raised, <<>>)
           /\ added' = IF raised = "none" THEN Append(added, layer) ELSE added
           /\ change_padding' =
                 IF kind = "ZeroPadding" /\ raised = "none" THEN TRUE ELSE change_padding
           /\ flatten_shapes' =
                 IF kind = "Flatten" /\ raised = "none"
                 THEN Append(flatten_shapes, <<layer.name, flat.value>>)
                 ELSE flatten_shapes
           /\ IF kind = "other"
              THEN /\ layers' = Append(layers,
                                       Population(Prod(Tail(layer.output_shape)),
                                                  "IF_curr_exp", layer.name))
                   /\ script' = Append(script, layer_lines(layer))
                   /\ phase' = IF NeedsBuild(layer.cls) THEN "Built" ELSE "Ready"
              ELSE UNCHANGED <<layers, script, phase>>
    /\ io' = NoIO
    /\ UNCHANGED <<config, connections, input_shape, exvars, runvars>>

\* lines 323-334
compile ==
    /\ phase = "Ready"
    /\ script' = Append(script, [block |-> "compile", label |-> <<>>, shape |-> <<>>])
    /\ phase' = "Compiled"
    /\ call' = Called("compile", NoLayer, "none", <<>>)
    /\ io' = NoIO
    /\ UNCHANGED <<config, layers, flatten_shapes, change_padding, connections,
                   input_shape, added, exvars, runvars>>

---------------------------------------------------------------------------
(* SNN builder: build_dense, build_convolution, build_pooling *)

\* a plausible slip: the column is not reduced modulo the width
remapped_index_without_mod(i, f_in, y_in, x_in) ==
    LET f == i % f_in
        y == i \div (f_in * x_in)
        x == i \div f_in
    IN  f * x_in * y_in + x_in * y + x

\* lines 223-229: new_i for input neuron i
remapped_index(i, f_in, y_in, x_in) ==
    LET f == i % f_in
        y == i \div (f_in * x_in)
        x == (i \div f_in) % x_in
    IN  f * x_in * y_in + x_in * y + x

\* the connection list built by the two nested loops over the weight matrix,
\* with source[i] the source index used for input neuron i
ConnectionList(weights, source) ==
    LET rows == Len(weights)
        cols == Len(weights[1])
    IN  [e \in 1..(rows * cols) |->
            LET i == (e - 1) \div cols
                j == (e - 1) % cols
            IN  <<source[i], j, weights[i + 1][j + 1], delay>>]

\* a plausible slip: the record is read but left in the list
flatten_shapes_not_popped(fshapes) == fshapes

\* line 214: self.flatten_shapes after pop()
flatten_shapes_popped(fshapes) == SubSeq(fshapes, 1, Len(fshapes) - 1)

\* a plausible slip: a record is taken off the list before the number of
\* pending records is tested
dense_connections_popping_first(weights, fshapes, data_format) ==
    IF Len(fshapes) > 1
    THEN [raised |-> "RuntimeWarning", connections |-> <<>>,
          flatten_shapes |-> flatten_shapes_popped(fshapes)]
    ELSE [raised |-> "none",
          connections |-> ConnectionList(weights, [i \in 0..(Len(weights) - 1) |-> i]),
          flatten_shapes |-> <<>>]

\* lines 211-237: the connection list of build_dense, the exception it raises
\* on the way, and self.flatten_shapes afterwards
dense_connections(weights, fshapes, data_format) ==
    IF Len(fshapes) = 1
    THEN LET shape == Last(fshapes)[2] IN      \* flatten_name, shape = pop()
         IF Len(shape) # 3
         THEN [raised |-> "ValueError", connections |-> <<>>,
               flatten_shapes |-> flatten_shapes_popped(fshapes)]
         ELSE LET f_in == IF data_format = "channels_last" THEN shape[3] ELSE shape[1]
                  y_in == IF data_format = "channels_last" THEN shape[1] ELSE shape[2]
                  x_in == IF data_format = "channels_last" THEN shape[2] ELSE shape[3]
                  new_i == [i \in 0..(Len(weights) - 1) |->
                               remapped_index(i, f_in, y_in, x_in)]
              IN  [raised |-> "none", connections |-> ConnectionList(weights, new_i),
                   flatten_shapes |-> flatten_shapes_popped(fshapes)]
    ELSE IF Len(fshapes) > 1
    THEN [raised |-> "RuntimeWarning", connections |-> <<>>, flatten_shapes |-> fshapes]
    ELSE LET same == [i \in 0..(Len(weights) - 1) |-> i]
         IN  [raised |-> "none", connections |-> ConnectionList(weights, same),
              flatten_shapes |-> fshapes]

\* sim.Projection(self.layers[-2], self.layers[-1], FromListConnector(conns)),
\* appended to self.connections when tools.simulate is set
WithProjection(conns) ==
    IF config.simulate
    THEN Append(connections, [pre |-> Len(layers) - 1, post |-> Len(layers),
                              connector |-> conns])
    ELSE connections

ScriptBlock(kind) == [block |-> kind, label |-> <<>>, shape |-> <<>>]

\* lines 191-258
build_dense ==
    /\ phase = "Built"
    /\ Last(added).cls = "Dense"
    /\ LET layer == Last(added)
           r == dense_connections(layer.weights, flatten_shapes, config.data_format)
       IN  /\ layers' = set_biases(layers, layer.biases)
           /\ flatten_shapes' = r.flatten_shapes
           /\ IF r.raised = "none"
              THEN /\ connections' = WithProjection(r.connections)
                   /\ script' = Append(script, ScriptBlock("dense"))
              ELSE UNCHANGED <<connections, script>>
           /\ call' = Called("build_dense", layer, r.raised, r.connections)
    /\ phase' = "Ready"
    /\ io' = NoIO
    /\ UNCHANGED <<config, change_padding, input_shape, added, exvars, runvars>>

\* snntoolbox.simulation.utils.build_convolution: the connection list is left
\* uninterpreted; the biases are the layer's, one per neuron
utils_build_convolution(layer) ==
    [connections |-> <<<<"convolution", layer.padding>>>>, biases |-> layer.biases]

\* snntoolbox.simulation.utils.build_pooling: the connection list is left
\* uninterpreted
utils_build_pooling(layer) == <<<<"pooling", layer.cls>>>>

\* a plausible slip: the border mode is not looked at
convolution_padding_any_mode(flag, padding) ==
    IF flag THEN [raised |-> "none", change_padding |-> FALSE, padding |-> "ZeroPadding"]
    ELSE [raised |-> "none", change_padding |-> flag, padding |-> padding]

\* lines 266-273: the exception raised, self.change_padding and layer.padding
\* after the test of the pending-padding flag
convolution_padding(flag, padding) ==
    IF flag
    THEN IF padding = "valid"
         THEN [raised |-> "none", change_padding |-> FALSE, padding |-> "ZeroPadding"]
         ELSE [raised |-> "NotImplementedError", change_padding |-> flag,
               padding |-> padding]
    ELSE [raised |-> "none", change_padding |-> flag, padding |-> padding]

\* lines 260-301
build_convolution ==
    /\ phase = "Built"
    /\ Last(added).cls = "Conv2D"
    /\ phase' = "Ready"
    /\ LET p == convolution_padding(change_padding, Last(added).padding)
           layer == [Last(added) EXCEPT !.padding = p.padding]
           r == utils_build_convolution(layer)
       IN  /\ change_padding' = p.change_padding
           /\ added' = [added EXCEPT ![Len(added)] = layer]
           /\ IF p.raised # "none"
              THEN /\ call' = Called("build_convolution", layer, p.raised, <<>>)
                   /\ UNCHANGED <<layers, connections, script>>
              ELSE /\ layers' = set_biases(layers, r.biases)
                   /\ connections' = WithProjection(r.connections)
                   /\ script' = Append(script, ScriptBlock("convolution"))
                   /\ call' = Called("build_convolution", layer, "none", r.connections)
    /\ io' = NoIO
    /\ UNCHANGED <<config, flatten_shapes, input_shape, exvars, runvars>>

\* lines 303-321
build_pooling ==
    /\ phase = "Built"
    /\ Last(added).cls \in {"MaxPooling2D", "AveragePooling2D"}
    /\ phase' = "Ready"
    /\ connections' = WithProjection(utils_build_pooling(Last(added)))
    /\ script' = Append(script, ScriptBlock("pooling"))
    /\ call' = Called("build_pooling", Last(added), "none", utils_build_pooling(Last(added)))
    /\ io' = NoIO
    /\ UNCHANGED <<config, layers, flatten_shapes, change_padding, input_shape, added,
                   exvars, runvars>>

Next ==
    \/ \E shape \in InputShapes : add_input_layer(shape)
    \/ /\ phase = "Ready"
       /\ \E layer \in LayerInputs(Len(added), Last(layers).size) : add_layer(layer)
    \/ build_dense
    \/ build_convolution
    \/ build_pooling
    \/ compile

Spec == Init /\ [][Next]_vars

---------------------------------------------------------------------------
(* SNN persistence: save_assembly, save_connections, save_biases *)

\* snntoolbox.utils.utils.confirm_overwrite(filepath): asks the user when the
\* file exists, and is true without asking when it does not
confirm_overwrite(exists, answer) == IF exists THEN answer ELSE TRUE

\* config.getboolean('output', 'overwrite') or confirm_overwrite(filepath),
\* where the user answers yes for the files in `yes`
Permitted(fs, name, yes) ==
    config.overwrite \/ confirm_overwrite(name \in DOMAIN fs, name \in yes)

\* the files for which confirm_overwrite asks the user
Asked(fs, names) == IF config.overwrite THEN {} ELSE names \cap DOMAIN fs

\* d[key] = value on a Python dict
Put(d, key, value) ==
    [k \in DOMAIN d \cup {key} |-> IF k = key THEN value ELSE d[k]]

\* a plausible slip: the value of the first neuron is given for all
get_i_offset_of_first(pop) == [scalar |-> TRUE, value |-> pop.i_offset[1]]

\* population.get('i_offset'): a single number when all neurons have the same
\* value, the vector otherwise
get_i_offset(pop) ==
    IF \A k \in 1..pop.size : SameValue(pop.i_offset[k], pop.i_offset[1])
    THEN [scalar |-> TRUE, value |-> pop.i_offset[1]]
    ELSE [scalar |-> FALSE, value |-> pop.i_offset]

\* population.set(i_offset=v): a single number is given to every neuron
set_i_offset(pop, v) ==
    [pop EXCEPT !.i_offset = IF v.scalar THEN [k \in 1..pop.size |-> v.value]
                             ELSE v.value]

\* lines 530-537: the entry of one population; celltype.describe() is taken
\* to give the name under which load_assembly finds the cell type in sim
assembly_data(pop) ==
    LET data == [size |-> pop.size, structure |-> "None", label |-> pop.label,
                 celltype |-> pop.celltype]
    IN  IF pop.label # Chars("InputLayer")
        THEN [size |-> data.size, structure |-> data.structure, label |-> data.label,
              celltype |-> data.celltype, i_offset |-> get_i_offset(pop)]
        ELSE data

\* lines 525-538: the dict s after the loop over the first n populations
RECURSIVE assembly_entries(_, _)
assembly_entries(lays, n) ==
    IF n = 0 THEN [k \in {} |-> <<>>]
    ELSE Put(assembly_entries(lays, n - 1), lays[n].label, assembly_data(lays[n]))

\* lines 525-541: the dict that save_assembly pickles
assembly_dict(lays) ==
    LET labels == [k \in 1..Len(lays) |-> lays[k].label]
        s1 == Put(assembly_entries(lays, Len(lays)),
                  <<"l", "a", "b", "e", "l", "s">>, labels)
        s2 == Put(s1, <<"v", "a", "r", "i", "a", "b", "l", "e", "s">>,
                  <<"size", "structure", "label">>)
    IN  Put(s2, <<"s", "i", "z", "e">>, Len(lays))

\* lines 517-542: the directory after save_assembly
assembly_saved(fs, lays, yes) ==
    IF ~Permitted(fs, filename_snn, yes) THEN fs
    ELSE Put(fs, filename_snn, assembly_dict(lays))

\* the label pyNN gives a projection: '<pre label>→<post label>'; the arrow is
\* written ">" here
projection_label(lays, projection) ==
    lays[projection.pre].label \o <<">">> \o lays[projection.post].label

\* label.partition('→')[-1]: the text after the first arrow, the whole text
\* when there is no arrow
RECURSIVE partition_last(_)
partition_last(label) ==
    IF \A k \in 1..Len(label) : label[k] # ">" THEN label
    ELSE IF Head(label) = ">" THEN Tail(label)
    ELSE partition_last(Tail(label))

\* line 571: the file name for each projection
connection_path(lays, projection) == partition_last(projection_label(lays, projection))

\* lines 570-574: the directory after save_connections
connections_saved(fs, lays, conns, yes) ==
    LET written == {k \in 1..Len(conns) :
                       Permitted(fs, connection_path(lays, conns[k]), yes)}
        names == {connection_path(lays, conns[k]) : k \in written}
        last(n) == CHOOSE k \in written :
                       /\ connection_path(lays, conns[k]) = n
                       /\ \A m \in written :
                             connection_path(lays, conns[m]) = n => m <= k
    IN  [n \in DOMAIN fs \cup names |->
            IF n \in names THEN conns[last(n)].connector ELSE fs[n]]

biases_suffix == <<"_", "b", "i", "a", "s", "e", "s">>

\* line 589
biases_path(pop) == pop.label \o biases_suffix

\* lines 592-599: the populations whose biases are written once the overwrite
\* test has passed
has_bias_vector(pop) ==
    /\ ~IsSubstring(<<"I", "n", "p", "u", "t">>, pop.label)
    /\ ~get_i_offset(pop).scalar

\* lines 588-600: the directory after save_biases; np.savetxt writes each
\* number with 18 digits after the point, which np.loadtxt reads back exactly
biases_saved(fs, lays, yes) ==
    LET written == {k \in 1..Len(lays) :
                       /\ Permitted(fs, biases_path(lays[k]), yes)
                       /\ has_bias_vector(lays[k])}
        names == {biases_path(lays[k]) : k \in written}
        last(n) == CHOOSE k \in written :
                       /\ biases_path(lays[k]) = n
                       /\ \A m \in written : biases_path(lays[m]) = n => m <= k
    IN  [n \in DOMAIN fs \cup names |->
            IF n \in names THEN lays[last(n)].i_offset ELSE fs[n]]

\* lines 630-652: one population rebuilt from the assembly dict
loaded_population(s, label) ==
    LET population == Population(s[label].size, s[label].celltype, label)
    IN  IF label # Chars("InputLayer")
        THEN set_i_offset(population, s[label].i_offset)
        ELSE population

\* lines 602-654
load_assembly(fs) ==
    IF filename_snn \notin DOMAIN fs
    THEN [raised |-> "AssertionError", layers |-> <<>>]
    ELSE LET s == fs[filename_snn]
             labels == s[<<"l", "a", "b", "e", "l", "s">>]
         IN  [raised |-> "none",
              layers |-> [k \in 1..Len(labels) |-> loaded_population(s, labels[k])]]

---------------------------------------------------------------------------
(* The replay script: get_snn_from_script runs its get_model() *)

NotSpace(c) == c # " "
NotEmpty(x) == x # <<>>

\* the value Python gives the text of a tuple of ints
EvalTuple(text) ==
    LET inner == SubSeq(text, 2, Len(text) - 1)
        pieces == Split(inner, ",")
        stripped == [k \in 1..Len(pieces) |-> SelectSeq(pieces[k], NotSpace)]
        items == SelectSeq(stripped, NotEmpty)
    IN  [k \in 1..Len(items) |-> IntOf(items[k])]

\* the Population statement of a header block (lines 142-146) or of a layer
\* block (lines 183-185), run
script_population(b) ==
    Population(Prod(EvalTuple(b.shape)),
               IF b.block = "header" THEN "SpikeSourceArray" ELSE "IF_curr_exp",
               b.label)

\* the populations that the Population statements of the script make, in order
RECURSIVE script_populations(_)
script_populations(blocks) ==
    IF blocks = <<>> THEN <<>>
    ELSE IF Head(blocks).block \in {"header", "layer"}
    THEN <<script_population(Head(blocks))>> \o script_populations(Tail(blocks))
    ELSE script_populations(Tail(blocks))

\* lines 254-255 and 297-298 of the script: biases = np.loadtxt(filepath);
\* layers[-1].set(i_offset=biases*dt/1e2)
script_set_biases(lays, biases) ==
    [lays EXCEPT ![Len(lays)].i_offset =
        [k \in 1..Len(biases) |->
            [num |-> biases[k].num * dt.num, den |-> biases[k].den * dt.den * 100]]]

\* get_model() of the script, run block by block on the directory fs; a file
\* that a block reads and that is missing ends the run with IOError, a script
\* without the return statement gives no value to unpack (TypeError)
RECURSIVE get_model(_, _, _)
get_model(blocks, fs, lays) ==
    IF blocks = <<>> THEN [raised |-> "TypeError", layers |-> lays]
    ELSE LET b == Head(blocks) IN
         CASE b.block \in {"header", "layer"} ->
                 get_model(Tail(blocks), fs, Append(lays, script_population(b)))
           [] b.block \in {"dense", "convolution"} ->
                 IF Last(lays).label \notin DOMAIN fs \/ biases_path(Last(lays)) \notin DOMAIN fs
                 THEN [raised |-> "IOError", layers |-> lays]
                 ELSE get_model(Tail(blocks), fs,
                                script_set_biases(lays, fs[biases_path(Last(lays))]))
           [] b.block = "pooling" ->
                 IF Last(lays).label \notin DOMAIN fs
                 THEN [raised |-> "IOError", layers |-> lays]
                 ELSE get_model(Tail(blocks), fs, lays)
           [] b.block = "compile" -> [raised |-> "none", layers |-> lays]
           [] OTHER -> [raised |-> "SyntaxError", layers |-> lays]

\* lines 701-723
get_snn_from_script(blocks, fs) == get_model(blocks, fs, <<>>)

\* lines 392-400: load without a script
load_from_files(fs) ==
    LET a == load_assembly(fs) IN
    IF a.raised # "none" THEN [raised |-> a.raised, assigned |-> FALSE, layers |-> <<>>]
    ELSE IF \E i \in 1..(Len(a.layers) - 1) : a.layers[i + 1].label \notin DOMAIN fs
    THEN [raised |-> "AssertionError", assigned |-> TRUE, layers |-> a.layers]
    ELSE [raised |-> "none", assigned |-> TRUE, layers |-> a.layers]

---------------------------------------------------------------------------
(* Saving and loading a built network *)

\* the files each save operation writes, given the user's answers
assembly_written(fs, yes) ==
    IF Permitted(fs, filename_snn, yes) THEN {filename_snn} ELSE {}

connections_written(fs, lays, conns, yes) ==
    {connection_path(lays, conns[k]) : k \in {m \in 1..Len(conns) :
        Permitted(fs, connection_path(lays, conns[m]), yes)}}

biases_written(fs, lays, yes) ==
    {biases_path(lays[k]) : k \in {m \in 1..Len(lays) :
        Permitted(fs, biases_path(lays[m]), yes) /\ has_bias_vector(lays[m])}}

connection_paths(lays, conns) ==
    {connection_path(lays, conns[k]) : k \in 1..Len(conns)}

biases_paths(lays) == {biases_path(lays[k]) : k \in 1..Len(lays)}

\* the user's answers to the prompts of one call: yes to all or no to all
Answers(asked) == {{}, asked}

\* what a call that wrote the files `written` did to files that existed
Replaced(fs, written, yes) == [replaced |-> written \cap DOMAIN fs, granted |-> yes]

\* lines 496-542
save_assembly ==
    /\ phase = "Compiled"
    /\ \E yes \in Answers(Asked(files, {filename_snn})) :
          /\ files' = assembly_saved(files, layers, yes)
          /\ io' = Replaced(files, assembly_written(files, yes), yes)
    /\ call' = Called("save_assembly", NoLayer, "none", <<>>)
    /\ UNCHANGED <<config, phase, layers, flatten_shapes, change_padding, connections,
                   script, input_shape, added, sample_idx, resets, exvars>>

\* lines 544-574
save_connections ==
    /\ phase = "Compiled"
    /\ \E yes \in Answers(Asked(files, connection_paths(layers, connections))) :
          /\ files' = connections_saved(files, layers, connections, yes)
          /\ io' = Replaced(files, connections_written(files, layers, connections, yes),
                            yes)
    /\ call' = Called("save_connections", NoLayer, "none", <<>>)
    /\ UNCHANGED <<config, phase, layers, flatten_shapes, change_padding, connections,
                   script, input_shape, added, sample_idx, resets, exvars>>

\* lines 576-600
save_biases ==
    /\ phase = "Compiled"
    /\ \E yes \in Answers(Asked(files, biases_paths(layers))) :
          /\ files' = biases_saved(files, layers, yes)
          /\ io' = Replaced(files, biases_written(files, layers, yes), yes)
    /\ call' = Called("save_biases", NoLayer, "none", <<>>)
    /\ UNCHANGED <<config, phase, layers, flatten_shapes, change_padding, connections,
                   script, input_shape, added, sample_idx, resets, exvars>>

\* lines 378-384: the three save operations in a row
save ==
    /\ phase = "Compiled"
    /\ \E yes \in Answers(Asked(files, {filename_snn}
                                       \cup connection_paths(layers, connections)
                                       \cup biases_paths(layers))) :
          LET fs1 == assembly_saved(files, layers, yes)
              fs2 == connections_saved(fs1, layers, connections, yes)
          IN  /\ files' = biases_saved(fs2, layers, yes)
              /\ io' = Replaced(files,
                                assembly_written(files, yes)
                                \cup connections_written(fs1, layers, connections, yes)
                                \cup biases_written(fs2, layers, yes),
                                yes)
    /\ call' = Called("save", NoLayer, "none", <<>>)
    /\ UNCHANGED <<config, phase, layers, flatten_shapes, change_padding, connections,
                   script, input_shape, added, sample_idx, resets, exvars>>

\* lines 386-400
load ==
    /\ phase = "Compiled"
    /\ IF script # <<>>
       THEN LET r == get_snn_from_script(script, files)
            IN  /\ layers' = IF r.raised = "none" THEN r.layers ELSE layers
                /\ call' = Called("load", NoLayer, r.raised, <<"script">>)
       ELSE LET r == load_from_files(files)
            IN  /\ layers' = IF r.assigned THEN r.layers ELSE layers
                /\ call' = Called("load", NoLayer, r.raised, <<"files">>)
    /\ phase' = "Loaded"
    /\ io' = NoIO
    /\ UNCHANGED <<config, flatten_shapes, change_padding, connections, script,
                   input_shape, added, runvars, exvars>>

\* the user takes the replay script out of the working directory
script_removed ==
    /\ phase = "Compiled"
    /\ script # <<>>
    /\ script' = <<>>
    /\ call' = Called("script_removed", NoLayer, "none", <<>>)
    /\ io' = NoIO
    /\ UNCHANGED <<config, phase, layers, flatten_shapes, change_padding, connections,
                   input_shape, added, runvars, exvars>>

\* the configurations of a build that is saved: the overwrite switch varies
SaveConfigs ==
    [data_format : {"channels_last"}, simulate : BOOLEAN, overwrite : BOOLEAN,
     reset_between_nth_sample : {1}]

\* the layers of a build that is saved: the ones that get a population
SaveLayerInputs(idx, src_size) ==
    {l \in LayerInputs(idx, src_size) :
        \/ l.cls \in {"Dense", "AveragePooling2D"}
        \/ l.cls = "Conv2D" /\ l.padding = "same"}

\* a replay script left in the working directory by an earlier conversion
StaleScript == <<header_lines(<<1, 3>>), ScriptBlock("compile")>>

InitSave ==
    /\ ExIdle
    /\ config \in SaveConfigs
    /\ phase = "Empty"
    /\ layers = <<>>
    /\ flatten_shapes = <<>>
    /\ change_padding = FALSE
    /\ connections = <<>>
    /\ script \in {<<>>, StaleScript}
    /\ input_shape = <<>>
    /\ added = <<>>
    /\ call = NoCall
    /\ io = NoIO
    /\ files = NoFiles
    /\ sample_idx = 0
    /\ resets = <<>>

NextSave ==
    \/ \E shape \in InputShapes : add_input_layer(shape)
    \/ /\ phase = "Ready"
       /\ Len(added) < MaxSaved
       /\ \E layer \in SaveLayerInputs(Len(added), Last(layers).size) : add_layer(layer)
    \/ build_dense
    \/ build_convolution
    \/ build_pooling
    \/ compile
    \/ save_assembly
    \/ save_connections
    \/ save_biases
    \/ save
    \/ load
    \/ script_removed

SpecSave == InitSave /\ [][NextSave]_vars

---------------------------------------------------------------------------
(* The run over the samples: reset(sample_idx) before each sample *)

\* a plausible slip: interval 0 is taken as interval 1
reset_interval_one(mod, idx) == IF mod # 0 THEN mod ELSE 1

\* line 368: mod = mod if mod else sample_idx + 1
reset_interval(mod, idx) == IF mod # 0 THEN mod ELSE idx + 1

RunConfigs ==
    [data_format : {"channels_last"}, simulate : {TRUE}, overwrite : {TRUE},
     reset_between_nth_sample : 0..MaxInterval]

InitRun ==
    /\ ExIdle
    /\ config \in RunConfigs
    /\ phase = "Reset"
    /\ layers = <<>>
    /\ flatten_shapes = <<>>
    /\ change_padding = FALSE
    /\ connections = <<>>
    /\ script = <<>>
    /\ input_shape = <<>>
    /\ added = <<>>
    /\ call = NoCall
    /\ io = NoIO
    /\ files = NoFiles
    /\ sample_idx = 0
    /\ resets = <<>>

\* lines 365-372; self.sim.reset() is recorded in resets
reset ==
    /\ phase = "Reset"
    /\ sample_idx < MaxSamples
    /\ LET mod == reset_interval(config.reset_between_nth_sample, sample_idx)
       IN  resets' = Append(resets, sample_idx % mod = 0)
    /\ phase' = "Simulate"
    /\ call' = Called("reset", NoLayer, "none", <<>>)
    /\ UNCHANGED <<config, layers, flatten_shapes, change_padding, connections, script,
                   input_shape, added, io, files, sample_idx, exvars>>

\* lines 336-363: the sample is simulated; the run goes on to the next sample
simulate ==
    /\ phase = "Simulate"
    /\ sample_idx' = sample_idx + 1
    /\ phase' = "Reset"
    /\ call' = Called("simulate", NoLayer, "none", <<>>)
    /\ UNCHANGED <<config, layers, flatten_shapes, change_padding, connections, script,
                   input_shape, added, io, files, resets, exvars>>

NextRun == reset \/ simulate

SpecRun == InitRun /\ [][NextRun]_vars

---------------------------------------------------------------------------
(* Claims about the builder, under Spec *)

IsFlatten(layer) == layer.cls = "Flatten"
IsZeroPadding(layer) == layer.cls = "ZeroPadding2D"
MakesPopulation(layer) == ~IsFlatten(layer) /\ ~IsZeroPadding(layer)

\* C6: once the input layer is added, the population list is the input
\* population (label 'InputLayer', size the product of the non-batch input
\* dimensions) followed by one population for each successfully added layer
\* that is neither Flatten nor ZeroPadding, in call order, labelled with the
\* layer's name and sized by the product of its non-batch output dimensions.
C6_Populations ==
    phase # "Empty" =>
        LET made == SelectSeq(added, MakesPopulation) IN
        /\ Len(layers) = 1 + Len(made)
        /\ layers[1].label = Chars("InputLayer")
        /\ layers[1].size = Prod(Tail(input_shape))
        /\ \A k \in 1..Len(made) :
              /\ layers[k + 1].label = made[k].name
              /\ layers[k + 1].size = Prod(Tail(made[k].output_shape))

\* C6 witness: a Flatten layer, an accepted ZeroPadding layer and two other
\* layers were added
C6_Witness ==
    /\ Len(added) = 4
    /\ \E k \in 1..Len(added) : IsFlatten(added[k])
    /\ \E k \in 1..Len(added) : IsZeroPadding(added[k])
    /\ Len(layers) = 3

\* C7 (as claimed): at most one FlattenShapeRecord is pending in every
\* reachable state.
C7_Claim == Len(flatten_shapes) <= 1

\* every Flatten layer added so far is directly followed by a Dense layer
\* (or is the last layer added)
FlattenThenDense ==
    \A k \in 1..(Len(added) - 1) : IsFlatten(added[k]) => added[k + 1].cls = "Dense"

\* C7 (amended): at most one FlattenShapeRecord is pending as long as every
\* Flatten layer added so far is directly followed by a Dense layer; no record
\* is pending after a build_dense call that succeeds; and with more than one
\* record pending build_dense fails with RuntimeWarning.
C7_Amended ==
    /\ FlattenThenDense => Len(flatten_shapes) <= 1
    /\ call.op = "build_dense" =>
          /\ call.raised = "none" => Len(flatten_shapes) = 0
          /\ Len(flatten_shapes) > 1 => call.raised = "RuntimeWarning"

\* C7 witness: build_dense has consumed the record of a Flatten layer
C7_Witness ==
    /\ call.op = "build_dense"
    /\ call.raised = "none"
    /\ Len(added) >= 2
    /\ IsFlatten(added[Len(added) - 1])
    /\ flatten_shapes = <<>>

\* padding of exactly one cell on every side: a non-empty tuple of 1s or (1, 1)s
OneCellEverySide(padding) ==
    /\ padding # <<>>
    /\ \A k \in 1..Len(padding) : padding[k] \in {<<1>>, <<1, 1>>}

\* C8 (as claimed): add_layer on a ZeroPadding layer fails and leaves the
\* populations, the padding flag and the flatten records unchanged unless the
\* padding is one cell on every side; then it sets the flag and changes
\* nothing else.
C8_Claim ==
    [][(call'.op = "add_layer" /\ IsZeroPadding(call'.layer)) =>
          IF OneCellEverySide(call'.layer.padding)
          THEN /\ call'.raised = "none"
               /\ change_padding'
               /\ UNCHANGED <<layers, flatten_shapes, connections, script>>
          ELSE /\ call'.raised = "NotImplementedError"
               /\ UNCHANGED <<layers, change_padding, flatten_shapes>>]_vars

\* the connection list of a rows-by-cols matrix without remapping
IsPlainList(c, W) ==
    LET rows == Len(W)
        cols == Len(W[1])
    IN  /\ Len(c) = rows * cols
        /\ \A i \in 0..(rows - 1) : \A j \in 0..(cols - 1) :
              \E e \in 1..Len(c) : c[e] = <<i, j, W[i + 1][j + 1], delay>>

\* a connection list whose source indices are a permutation of the rows
IsPermutedList(c, W) ==
    LET rows == Len(W)
        cols == Len(W[1])
    IN  /\ Len(c) = rows * cols
        /\ \A e \in 1..Len(c) : c[e][1] \in 0..(rows - 1)
        /\ \A i \in 0..(rows - 1) :
              Cardinality({e \in 1..Len(c) : c[e][1] = i}) = cols

\* C9 (as claimed): build_dense with no pending record yields one entry
\* (i, j, W[i][j], delay) per matrix entry; with exactly one pending record it
\* yields rows*cols entries whose source indices permute 0..rows-1.
C9_Claim ==
    [][call'.op = "build_dense" =>
          /\ Len(flatten_shapes) = 0 =>
                /\ call'.raised = "none"
                /\ IsPlainList(call'.connections, call'.layer.weights)
          /\ Len(flatten_shapes) = 1 =>
                /\ call'.raised = "none"
                /\ IsPermutedList(call'.connections, call'.layer.weights)]_vars

\* C9 (amended): the same, the second part for a pending record whose shape has
\* three dimensions with product rows.
C9_Amended ==
    [][call'.op = "build_dense" =>
          /\ Len(flatten_shapes) = 0 =>
                /\ call'.raised = "none"
                /\ IsPlainList(call'.connections, call'.layer.weights)
          /\ (/\ Len(flatten_shapes) = 1
              /\ Len(flatten_shapes[1][2]) = 3
              /\ Prod(flatten_shapes[1][2]) = Len(call'.layer.weights)) =>
                /\ call'.raised = "none"
                /\ IsPermutedList(call'.connections, call'.layer.weights)]_vars

\* C9 witness: build_dense consumed a record and moved a source index
C9_Witness ==
    /\ call.op = "build_dense"
    /\ call.raised = "none"
    /\ Len(added) >= 2
    /\ IsFlatten(added[Len(added) - 1])
    /\ \E e \in 1..Len(call.connections) :
          call.connections[e][1] # (e - 1) \div Len(call.layer.weights[1])

\* set_biases ran in the step: build_dense always calls it, build_convolution
\* unless it fails on the padding before
SetBiasesRan(c) ==
    \/ c.op = "build_dense"
    \/ c.op = "build_convolution" /\ c.raised = "none"

\* C10: set_biases with an all-zero vector changes no population; with a
\* vector that has a nonzero entry it sets the offset current of neuron k of
\* the last population to bias[k]*dt/100 and changes no other population.
C10_SetBiases ==
    [][SetBiasesRan(call') =>
          LET b == call'.layer.biases
              last == Len(layers)
          IN  IF \A k \in 1..Len(b) : b[k] = 0
              THEN layers' = layers
              ELSE /\ Len(layers') = last
                   /\ \A p \in 1..(last - 1) : layers'[p] = layers[p]
                   /\ layers'[last].size = layers[last].size
                   /\ layers'[last].label = layers[last].label
                   /\ \A k \in 1..Len(b) :
                         SameValue(layers'[last].i_offset[k],
                                   [num |-> b[k] * dt.num, den |-> 100 * dt.den])]_vars

\* C10 witness: biases with a nonzero entry were set on the last population
\* while an earlier population keeps its own offset currents
C10_Witness ==
    /\ call.op = "build_dense"
    /\ call.layer.biases = RampBiases(2)
    /\ Len(layers) >= 3
    /\ Last(layers).i_offset[1].num = -1 * dt.num
    /\ layers[Len(layers) - 1].i_offset[1].num # 0

---------------------------------------------------------------------------
(* Claims about saving and loading, under SpecSave *)

\* two population lists with the same labels and sizes in the same order
SameLabelsAndSizes(a, b) ==
    /\ Len(a) = Len(b)
    /\ \A k \in 1..Len(a) : a[k].label = b[k].label /\ a[k].size = b[k].size

\* C11: after save_assembly with overwriting permitted, load_assembly of the
\* file returns as many populations as the builder holds, with the same labels
\* in the same order, the same sizes, and for every non-input population the
\* same offset current in every neuron.
C11_RoundTrip ==
    (call.op = "save_assembly" /\ config.overwrite) =>
        LET r == load_assembly(files) IN
        /\ r.raised = "none"
        /\ SameLabelsAndSizes(r.layers, layers)
        /\ \A k \in 1..Len(layers) :
              layers[k].label # Chars("InputLayer") =>
                 \A n \in 1..layers[k].size :
                    SameValue(r.layers[k].i_offset[n], layers[k].i_offset[n])

\* C11 witness: an assembly was saved that holds a population with different
\* offset currents and one with the same offset current in all neurons
C11_Witness ==
    /\ call.op = "save_assembly"
    /\ config.overwrite
    /\ filename_snn \in DOMAIN files
    /\ \E k \in 2..Len(layers) : ~get_i_offset(layers[k]).scalar
    /\ \E k \in 2..Len(layers) : get_i_offset(layers[k]).scalar
    /\ Len(load_assembly(files).layers) = 3

\* C13 (as claimed): after a build and a save with overwriting permitted, the
\* directory holds a connection file named after the label of every non-input
\* population, and load without the replay script passes its assertions.
C13_Claim ==
    (call.op = "save" /\ config.overwrite) =>
        /\ \A k \in 2..Len(layers) : layers[k].label \in DOMAIN files
        /\ load_from_files(files).raised = "none"

\* C14 (as claimed): no operation truncates or overwrites a file that existed
\* before the call, the replay script included, unless the overwrite setting
\* is on or the user confirmed the overwrite of that file.
C14_Claim ==
    \A n \in io.replaced : config.overwrite \/ n \in io.granted

\* the populations that build_dense or build_convolution set biases on
HasBiases(k) ==
    LET made == SelectSeq(added, MakesPopulation) IN
    k >= 2 /\ made[k - 1].cls \in {"Dense", "Conv2D"}

\* C19 (as claimed): for a built and saved network (connections kept, so that
\* their files are written) the replay script finds the files it reads, a
\* bias file for every Dense or Convolution population included, and gives
\* each neuron of such a population the offset current it has in the builder's
\* own network.
C19_Claim ==
    (call.op = "save" /\ config.overwrite /\ config.simulate /\ script # <<>>) =>
        LET r == get_snn_from_script(script, files) IN
        /\ r.raised = "none"
        /\ \A k \in 1..Len(layers) :
              HasBiases(k) =>
                 \A n \in 1..layers[k].size :
                    SameValue(r.layers[k].i_offset[n], layers[k].i_offset[n])

---------------------------------------------------------------------------
(* Claim about the run, under SpecRun *)

\* C15: over the samples 0, 1, 2, ... reset resets the simulator exactly at
\* the samples whose index is a multiple of the interval N when N >= 1, and at
\* sample 0 only when N = 0.
C15_Reset ==
    LET N == config.reset_between_nth_sample IN
    \A k \in 1..Len(resets) :
        resets[k] <=> IF N >= 1 THEN (k - 1) % N = 0 ELSE k - 1 = 0

\* C15 witness: with interval 0 the simulator was reset at sample 0 and not at
\* the samples after it
C15_Witness ==
    /\ config.reset_between_nth_sample = 0
    /\ Len(resets) >= 3
    /\ call.op = "reset"
    /\ resets[1]
    /\ ~resets[2]
    /\ ~resets[3]

---------------------------------------------------------------------------
(* Further claims about the builder, under Spec *)

DeclaredShape ==
    LET made == SelectSeq(added, MakesPopulation) IN
    IF made = <<>> THEN Tail(input_shape) ELSE Tail(Last(made).output_shape)

\* C16 (as claimed): add_layer on a Flatten layer succeeds in every state after
\* add_input_layer, also when the input population is the only one; it appends
\* one record (layer name, declared shape of the last population), creates no
\* population and sets no padding flag.
C16_Claim ==
    [][(call'.op = "add_layer" /\ IsFlatten(call'.layer)) =>
          /\ call'.raised = "none"
          /\ flatten_shapes' = Append(flatten_shapes, <<call'.layer.name, DeclaredShape>>)
          /\ UNCHANGED <<layers, change_padding>>]_vars

\* the source index the claim gives for input neuron i of a feature map with
\* the given numbers of channels, rows and columns
ExpectedSource(i, data_format, channels, height, width) ==
    IF data_format = "channels_last"
    THEN LET f == i % channels
             x == (i \div channels) % width
             y == i \div (channels * width)
         IN  f * width * height + y * width + x
    ELSE i

\* C17 (as claimed): with exactly one record pending, of a three-dimensional
\* shape, build_dense consumes the record and emits for every input neuron i
\* the source index f*width*height + y*width + x, (f, y, x) being the channel,
\* row and column of i under the configured layout; under channels_first that
\* index is i itself.
C17_Claim ==
    [][(/\ call'.op = "build_dense"
        /\ Len(flatten_shapes) = 1
        /\ Len(flatten_shapes[1][2]) = 3) =>
          LET shape == flatten_shapes[1][2]
              last == config.data_format = "channels_last"
              channels == IF last THEN shape[3] ELSE shape[1]
              height == IF last THEN shape[1] ELSE shape[2]
              width == IF last THEN shape[2] ELSE shape[3]
              cols == Len(call'.layer.weights[1])
          IN  /\ call'.raised = "none"
              /\ flatten_shapes' = <<>>
              /\ \A e \in 1..Len(call'.connections) :
                    call'.connections[e][1] =
                        ExpectedSource((e - 1) \div cols, config.data_format,
                                       channels, height, width)]_vars

\* C18: once the pending-padding flag is set it stays set through every
\* operation other than build_convolution; build_convolution with the flag set
\* clears it and switches the layer to explicit padding when the layer's border
\* mode is 'valid', and fails leaving the flag set for any other border mode;
\* with the flag not set it leaves the border mode and the flag as they are.
C18_Padding ==
    [][/\ (change_padding /\ call'.op # "build_convolution") => change_padding'
       /\ call'.op = "build_convolution" =>
             IF change_padding
             THEN IF Last(added).padding = "valid"
                  THEN /\ call'.raised = "none"
                       /\ ~change_padding'
                       /\ Last(added').padding = "ZeroPadding"
                       /\ call'.layer.padding = "ZeroPadding"
                  ELSE /\ call'.raised = "NotImplementedError"
                       /\ change_padding'
                       /\ Last(added').padding = Last(added).padding
             ELSE /\ ~change_padding'
                  /\ Last(added').padding = Last(added).padding]_vars

\* C18 witness: the flag was set, stayed set while another layer was added and
\* built, and the next build_convolution consumed it
C18_Witness ==
    /\ call.op = "build_convolution"
    /\ call.raised = "none"
    /\ call.layer.padding = "ZeroPadding"
    /\ ~change_padding
    /\ Len(added) >= 3
    /\ IsZeroPadding(added[1])
    /\ added[2].cls = "Dense"

\* C20 (as claimed): a build_dense call that fails because more than one
\* FlattenShapeRecord is pending leaves the builder as it was: no offset
\* current changed, no projection added, no record removed, nothing appended
\* to the script.
C20_Claim ==
    [][(call'.op = "build_dense" /\ call'.raised = "RuntimeWarning") =>
          UNCHANGED <<layers, connections, flatten_shapes, change_padding, script>>]_vars

\* C20 (amended): such a call adds no projection, removes no record and
\* appends nothing to the script, but it has already set the offset currents
\* of the last population from the layer's biases: neuron k has bias[k]*dt/100
\* when some bias is nonzero, and no population is changed when all are zero.
C20_Amended ==
    [][(call'.op = "build_dense" /\ call'.raised = "RuntimeWarning") =>
          LET b == call'.layer.biases
              last == Len(layers)
          IN  /\ Len(flatten_shapes) > 1
              /\ UNCHANGED <<connections, flatten_shapes, change_padding, script>>
              /\ Len(layers') = last
              /\ \A p \in 1..(last - 1) : layers'[p] = layers[p]
              /\ layers'[last].label = layers[last].label
              /\ layers'[last].size = layers[last].size
              /\ IF \A k \in 1..Len(b) : b[k] = 0
                 THEN layers' = layers
                 ELSE \A k \in 1..Len(b) :
                         SameValue(layers'[last].i_offset[k],
                                   [num |-> b[k] * dt.num, den |-> 100 * dt.den])]_vars

\* C20 witness: build_dense failed with two records pending after it had set
\* nonzero offset currents
C20_Witness ==
    /\ call.op = "build_dense"
    /\ call.raised = "RuntimeWarning"
    /\ Len(flatten_shapes) = 2
    /\ call.layer.biases = RampBiases(2)
    /\ Last(layers).i_offset[1].num # 0

=============================================================================
